---- MODULE Spec2Model ----
(***************************************************************************)
(* Model of the /v1/explain pipeline of sql-playground-api: the route      *)
(* handler (routes/explain.ts), the engine service (explainSQLService,     *)
(* parseExplainPlan), the LLM providers and the Redis cache wrapper.       *)
(* One request is one process; a process moves at the await points of the  *)
(* handler, and everything between two awaits is one atomic step.          *)
(***************************************************************************)
EXTENDS Integers, Sequences, FiniteSets, Bags, TLC

(***************************************************************************)
(* Bounds of the model.                                                    *)
(***************************************************************************)
NumProcs == 2
MaxVariant == 2
MaxRecs == 2

MaxTokens == 2

MaxCalls == 3

Procs == 1..NumProcs

(***************************************************************************)
(* Program constants.                                                      *)
(***************************************************************************)
CACHE_TTL_SECONDS == 3600
EXPLAIN_TTL == 3600

(***************************************************************************)
(* Inputs.  A SQL text is a string; "" is the empty text.  The two SELECT a *)
(* texts differ only in a literal value, SELECT b is another statement.    *)
(***************************************************************************)
SqlTexts == {"", "SELECT a WHERE x = 1", "SELECT a WHERE x = 2", "SELECT b"}
Dialects == {"postgres", "mysql", "sqlite", "oracle"}

\* fingerprint(sql).hash of the external engine: literal values are ignored.
fingerprint(sql) ==
    CASE sql = "SELECT a WHERE x = 1" -> "hA"
      [] sql = "SELECT a WHERE x = 2" -> "hA"
      [] sql = "SELECT b" -> "hB"
      [] OTHER -> "h0"

Hashes == {fingerprint(s) : s \in SqlTexts}

(***************************************************************************)
(* Texts as the code inspects them: Chars gives the characters of the      *)
(* texts the model uses, toUpperCase and includes work on the characters.  *)
(***************************************************************************)
Chars(s) ==
    CASE s = "SELECT a WHERE x = 1" ->
            <<"S", "E", "L", "E", "C", "T", " ", "a", " ", "W", "H", "E", "R", "E", " ", "x", " ", "=", " ", "1">>
      [] s = "SELECT a WHERE x = 2" ->
            <<"S", "E", "L", "E", "C", "T", " ", "a", " ", "W", "H", "E", "R", "E", " ", "x", " ", "=", " ", "2">>
      [] s = "SELECT b" ->
            <<"S", "E", "L", "E", "C", "T", " ", "b">>
      [] s = "select a where x = 1" ->
            <<"s", "e", "l", "e", "c", "t", " ", "a", " ", "w", "h", "e", "r", "e", " ", "x", " ", "=", " ", "1">>
      [] s = "SELECT a JOIN b Where x" ->
            <<"S", "E", "L", "E", "C", "T", " ", "a", " ", "J", "O", "I", "N", " ", "b", " ", "W", "h", "e", "r", "e", " ", "x">>
      [] s = "UPDATE t SET wher = 1" ->
            <<"U", "P", "D", "A", "T", "E", " ", "t", " ", "S", "E", "T", " ", "w", "h", "e", "r", " ", "=", " ", "1">>
      [] s = "DELETE FROM t" ->
            <<"D", "E", "L", "E", "T", "E", " ", "F", "R", "O", "M", " ", "t">>
      [] s = "SELECT" ->
            <<"S", "E", "L", "E", "C", "T">>
      [] s = "JOIN" ->
            <<"J", "O", "I", "N">>
      [] s = "WHERE" ->
            <<"W", "H", "E", "R", "E">>
      [] s = "missing" ->
            <<"m", "i", "s", "s", "i", "n", "g">>
      [] s = "sequential" ->
            <<"s", "e", "q", "u", "e", "n", "t", "i", "a", "l">>
      [] s = "missing index on filter" ->
            <<"m", "i", "s", "s", "i", "n", "g", " ", "i", "n", "d", "e", "x", " ", "o", "n", " ", "f", "i", "l", "t", "e", "r">>
      [] s = "sequential scan on t" ->
            <<"s", "e", "q", "u", "e", "n", "t", "i", "a", "l", " ", "s", "c", "a", "n", " ", "o", "n", " ", "t">>
      [] s = "Sequential scan" ->
            <<"S", "e", "q", "u", "e", "n", "t", "i", "a", "l", " ", "s", "c", "a", "n">>
      [] s = "Missing index" ->
            <<"M", "i", "s", "s", "i", "n", "g", " ", "i", "n", "d", "e", "x">>
      [] s = "filesort in use" ->
            <<"f", "i", "l", "e", "s", "o", "r", "t", " ", "i", "n", " ", "u", "s", "e">>
      [] OTHER -> <<>>

Upper(ch) ==
    CASE ch = "a" -> "A"
      [] ch = "b" -> "B"
      [] ch = "c" -> "C"
      [] ch = "d" -> "D"
      [] ch = "e" -> "E"
      [] ch = "f" -> "F"
      [] ch = "g" -> "G"
      [] ch = "h" -> "H"
      [] ch = "i" -> "I"
      [] ch = "j" -> "J"
      [] ch = "k" -> "K"
      [] ch = "l" -> "L"
      [] ch = "m" -> "M"
      [] ch = "n" -> "N"
      [] ch = "o" -> "O"
      [] ch = "p" -> "P"
      [] ch = "q" -> "Q"
      [] ch = "r" -> "R"
      [] ch = "s" -> "S"
      [] ch = "t" -> "T"
      [] ch = "u" -> "U"
      [] ch = "v" -> "V"
      [] ch = "w" -> "W"
      [] ch = "x" -> "X"
      [] ch = "y" -> "Y"
      [] ch = "z" -> "Z"
      [] OTHER -> ch

\* String.prototype.toUpperCase()
toUpperCase(text) == [i \in 1..Len(text) |-> Upper(text[i])]

\* String.prototype.includes(word)
includes(text, word) ==
    \E i \in 0..(Len(text) - Len(word)) : SubSeq(text, i + 1, i + Len(word)) = word

\* Mutant of hasWhere: the text is searched as it is written.
hasWhere_CaseSensitive(sql) == includes(Chars(sql), Chars("WHERE"))

\* request.sql.toUpperCase().includes('WHERE')
hasWhere(sql) == includes(toUpperCase(Chars(sql)), Chars("WHERE"))

\* request.sql.toUpperCase().includes('SELECT')
isSelect(sql) == includes(toUpperCase(Chars(sql)), Chars("SELECT"))

\* request.sql.toUpperCase().includes('JOIN')
isJoin(sql) == includes(toUpperCase(Chars(sql)), Chars("JOIN"))

\* The SQL texts given to the stand-in provider on its own.
StubSqlTexts ==
    SqlTexts \cup {"select a where x = 1", "SELECT a JOIN b Where x",
                   "UPDATE t SET wher = 1", "DELETE FROM t"}

(***************************************************************************)
(* An EXPLAIN text is described by what JSON.parse makes of it ("array",   *)
(* "value" for any other JSON value, "invalid" when JSON.parse throws),    *)
(* by whether the engine's parser of its dialect accepts it (lib: the      *)
(* JSON-shape parser for postgres and mysql, the query-plan parser for     *)
(* sqlite), by whether the engine's postgres text-format parser accepts    *)
(* it (txt), and by the number of recommendations the analyzer draws from  *)
(* the parsed plan.  "absent" is an undefined or empty explainPlan.        *)
(***************************************************************************)
NoPlanText == [json |-> "absent", lib |-> FALSE, txt |-> FALSE, recs |-> 0]
PlanTexts ==
    {NoPlanText} \cup
    {t \in [json : {"array", "value", "invalid"}, lib : BOOLEAN, txt : BOOLEAN,
            recs : 0..MaxRecs] : (~t.lib /\ ~t.txt) => t.recs = 0}

NoPlan == [ok |-> FALSE, parser |-> "none", recs |-> 0]

\* One parser of @sql-playground/engine applied to a text it accepts or
\* not: a plan or a throw.
LibParse(parser, text, accepts) ==
    IF accepts THEN [ok |-> TRUE, parser |-> parser, recs |-> text.recs]
    ELSE [ok |-> FALSE, parser |-> parser, recs |-> 0]

\* parseExplainPlan(explainOutput, dialect): ok = FALSE is a throw, and
\* parser names the parser that decided ("dialect" = Unsupported dialect,
\* "format" = MySQL text format not supported).  For postgres the call of
\* the JSON-shape parser is inside the try block: when it throws, the catch
\* hands the text to the text-format parser.
parseExplainPlan(text, dialect) ==
    LET unsupported == [ok |-> FALSE, parser |-> "dialect", recs |-> 0]
    IN  CASE dialect = "postgres" /\ text.json = "array" ->
                IF text.lib THEN LibParse("pgJson", text, TRUE)
                ELSE LibParse("pgText", text, text.txt)
          [] dialect = "postgres" /\ text.json = "invalid" ->
                LibParse("pgText", text, text.txt)
          [] dialect = "postgres" /\ text.json = "value" -> unsupported
          [] dialect = "mysql" /\ text.json \in {"array", "value"} ->
                IF text.lib THEN LibParse("mysqlJson", text, TRUE)
                ELSE [ok |-> FALSE, parser |-> "format", recs |-> 0]
          [] dialect = "mysql" -> [ok |-> FALSE, parser |-> "format", recs |-> 0]
          [] dialect = "sqlite" -> LibParse("sqlite", text, text.lib)
          [] OTHER -> unsupported

(***************************************************************************)
(* JavaScript values that flow through the pipeline.  A value has a shape: *)
(* "ok" is an object of the ExplanationResult shape, "noOpts" an object    *)
(* without an optimizations array (such as {}), "falsy" a falsy JSON       *)
(* scalar (0, false, ""), "undefined" is undefined/null.  variant stands   *)
(* for the content that varies from one backend reply to the next.         *)
(***************************************************************************)
NoValue == [shape |-> "undefined", variant |-> 0, optimizations |-> <<>>,
            confidence |-> FALSE]

Suggestion(origin, n) == [origin |-> origin, n |-> n]

BackendOpts(v) == [i \in 1..v |-> Suggestion("backend", i)]

OkValue(v, opts) ==
    [shape |-> "ok", variant |-> v, optimizations |-> opts, confidence |-> TRUE]

\* The JSON values a backend can reply: results with an optimizations array
\* (the shortest and the longest), with and without a confidence; objects
\* without an optimizations array, with and without a confidence (such as
\* {"summary": "s", "confidence": "high"} and {}); and a falsy scalar.
Values ==
    {[OkValue(v, BackendOpts(v)) EXCEPT !.confidence = c] :
        v \in {1, MaxVariant}, c \in BOOLEAN}
    \cup {[shape |-> "noOpts", variant |-> 0, optimizations |-> <<>>,
           confidence |-> TRUE],
          [shape |-> "noOpts", variant |-> 0, optimizations |-> <<>>,
           confidence |-> FALSE],
          [shape |-> "falsy", variant |-> 0, optimizations |-> <<>>,
           confidence |-> FALSE]}

\* if (value) of JavaScript
Truthy(v) == v.shape \in {"ok", "noOpts"}

\* JSON.stringify(value): a text, or no text at all for undefined.
JSONstringify(v) ==
    IF v.shape = "undefined" THEN [text |-> "none", of |-> NoValue]
    ELSE [text |-> "json", of |-> v]

\* JSON.parse(text): ok = FALSE is a SyntaxError.
JSONparse(t) ==
    IF t.text = "json" THEN [ok |-> TRUE, value |-> t.of]
    ELSE [ok |-> FALSE, value |-> NoValue]

(***************************************************************************)
(* LLM providers.                                                          *)
(***************************************************************************)
Envs == [LLM_PROVIDER : {"unset", "openai", "stub", "other"},
         OPENAI_API_KEY : BOOLEAN,
         NODE_ENV : {"test", "production"},
         ENABLE_RATE_LIMITING : {"unset", "false", "true"}]

\* The environments of a server that leaves rate limiting unconfigured.
ProviderEnvs == {e \in Envs : e.ENABLE_RATE_LIMITING = "unset"}

\* createLLMProvider(): "openai", "stub", or "throw" when construction fails.
createLLMProvider(e) ==
    LET provider == IF e.LLM_PROVIDER = "unset" THEN "openai" ELSE e.LLM_PROVIDER
    IN  IF provider = "openai"
        THEN (IF e.OPENAI_API_KEY THEN "openai" ELSE "throw")
        ELSE IF provider = "stub" \/ e.NODE_ENV = "test" THEN "stub"
        ELSE "throw"

\* What client.chat.completions.create can do: reject ("throw"), or resolve
\* with a message whose content is a text ("text"), possibly not JSON.
ChatOutcomes ==
    {[kind |-> "throw", content |-> JSONstringify(NoValue)],
     [kind |-> "text", content |-> [text |-> "prose", of |-> NoValue]],
     [kind |-> "text", content |-> [text |-> "json", of |-> NoValue]]}
    \cup {[kind |-> "text", content |-> JSONstringify(v)] : v \in Values}

\* OpenAIProvider.explainSQL given the outcome of the chat call.
\* JSON.parse('null').summary throws inside the try block.
OpenAIExplainSQL(out) ==
    IF out.kind = "throw" THEN [ok |-> FALSE, value |-> NoValue]
    ELSE LET parsed == JSONparse(out.content)
         IN  IF parsed.ok /\ parsed.value.shape # "undefined"
             THEN [ok |-> TRUE, value |-> parsed.value]
             ELSE [ok |-> FALSE, value |-> NoValue]

\* The object LocalStubProvider.explainSQL returns; ms is Math.random() * 100.
\* A template string is the sequence of its pieces.
StubResult(sql, ms) ==
    [summary |->
        IF isSelect(sql)
        THEN <<"Execute a ", IF isJoin(sql) THEN "join " ELSE "", "SELECT query",
               IF hasWhere(sql) THEN " with filtering" ELSE "">>
        ELSE <<"Execute a data modification">>,
     walkthrough |->
        <<IF isSelect(sql) THEN "Parse SELECT columns" ELSE "Parse statement",
          IF isJoin(sql) THEN "Join tables" ELSE "Access table",
          IF hasWhere(sql) THEN "Apply WHERE filters" ELSE "Process all rows",
          "Return results">>,
     planAnalysis |->
        <<[nodeId |-> "node_0",
           operation |-> IF hasWhere(sql) THEN "SeqScan" ELSE "SeqScan",
           estimatedRows |-> 1000,
           actualRows |-> "null",
           cost |-> [startup |-> 0, total |-> 100],
           hotnessScore |-> IF hasWhere(sql) THEN 75 ELSE 30,
           explanation |-> "Basic table scan"]>>,
     optimizations |->
        IF hasWhere(sql)
        THEN <<[title |-> "Add index on filtered column",
                severity |-> "medium",
                reason |-> "WHERE clause would benefit from index",
                change |-> "CREATE INDEX idx_filtered ON table(column)",
                estimatedImpact |-> "2-5x faster filtering"]>>
        ELSE <<>>,
     antipatterns |-> <<>>,
     rewrittenSQL |-> sql,
     confidence |-> "low",
     fingerprint |-> [hash |-> "stub_hash_1234567890",
                      pattern |-> "STUB_PATTERN",
                      tables |-> <<"stub_table">>,
                      joinCount |-> IF isJoin(sql) THEN 1 ELSE 0,
                      whereClauseComplexity |-> IF hasWhere(sql) THEN 1 ELSE 0],
     executionTimeMs |-> ms]

\* The stand-in has not been called.
NoStubResult ==
    [summary |-> <<>>, walkthrough |-> <<>>, planAnalysis |-> <<>>,
     optimizations |-> <<>>, antipatterns |-> <<>>, rewrittenSQL |-> "",
     confidence |-> "none",
     fingerprint |-> [hash |-> "", pattern |-> "", tables |-> <<>>,
                      joinCount |-> 0, whereClauseComplexity |-> 0],
     executionTimeMs |-> 0]

\* The optimizations of the stand-in's result, which do not depend on ms.
StubOptimizations == [s \in StubSqlTexts |-> StubResult(s, 1).optimizations]

\* LocalStubProvider.explainSQL as the handler sees it: the result with its
\* suggestions numbered.
LocalStubExplainSQL(sql, ms) ==
    [ok |-> TRUE,
     value |-> OkValue(ms, [i \in 1..Len(StubOptimizations[sql]) |->
                                Suggestion("stub", i)])]

\* The outcomes of llmProvider.explainSQL for a provider and a SQL text.
ExplainOutcomes(provider, sql) ==
    IF provider = "stub"
    THEN {LocalStubExplainSQL(sql, ms) : ms \in {1, MaxVariant}}
    ELSE {OpenAIExplainSQL(out) : out \in ChatOutcomes}

(***************************************************************************)
(* Requests and responses.                                                 *)
(***************************************************************************)
\* sanitizeSQL(sql, {enabled}).sanitized of the external engine: when enabled,
\* literal values are replaced by tokens such as <num_0>.
sanitizeSQL(sql, enabled) ==
    IF enabled /\ sql \in {"SELECT a WHERE x = 1", "SELECT a WHERE x = 2"}
    THEN "SELECT a WHERE x = <num_0>"
    ELSE sql

\* The LLMRequest explainSQLService hands to llmProvider.explainSQL for the
\* request body r; sanitizedSql is what the route computed.
LLMRequest(r) ==
    [sql |-> r.sql,
     sanitizedSql |-> sanitizeSQL(r.sql, r.privacyMode),
     dialect |-> r.dialect,
     privacyMode |-> TRUE]

NoPrompt == [sent |-> FALSE, sql |-> "", dialect |-> "", privacy |-> FALSE]

\* Mutant of buildPrompt: the prompt always carries request.sql.
buildPrompt_RawSql(request) ==
    [sent |-> TRUE, sql |-> request.sql, dialect |-> request.dialect,
     privacy |-> request.privacyMode]

\* OpenAIProvider.buildPrompt(request): the SQL text, the dialect and the
\* privacy line of the user prompt.
buildPrompt(request) ==
    [sent |-> TRUE,
     sql |-> IF request.privacyMode
             THEN (IF request.sanitizedSql # "" THEN request.sanitizedSql
                   ELSE request.sql)
             ELSE request.sql,
     dialect |-> request.dialect,
     privacy |-> request.privacyMode]

Requests == [sql : SqlTexts, dialect : Dialects, explainPlan : PlanTexts,
             privacyMode : BOOLEAN, cache : BOOLEAN]

\* Mutant of ExplainRequestSchema: sql is z.string() without min(1).
ExplainRequestSchema_NoMin(r) ==
    r.dialect \in {"postgres", "mysql", "sqlite"}

\* ExplainRequestSchema.safeParse(body).success
ExplainRequestSchema(r) ==
    r.sql # "" /\ r.dialect \in {"postgres", "mysql", "sqlite"}

NoResponse == [status |-> 0, data |-> NoValue, cached |-> FALSE, hash |-> "h0"]

\* {...value}: the own properties of an object; a value that is no object
\* (0, false, "", undefined) spreads to nothing, as {} does.
Spread(v) ==
    IF v.shape \in {"ok", "noOpts"} THEN v
    ELSE [shape |-> "noOpts", variant |-> 0, optimizations |-> <<>>,
          confidence |-> FALSE]

\* reply.code(200).send({success: true, data: {...result, cached, fingerprint}})
Reply200(result, fromCache, hash) ==
    [status |-> 200, data |-> Spread(result), cached |-> fromCache, hash |-> hash]

\* reply.code(code).send({success: false, error})
ReplyError(code) ==
    [status |-> code, data |-> NoValue, cached |-> FALSE, hash |-> "h0"]

(***************************************************************************)
(* The Redis store and the durable store.                                  *)
(***************************************************************************)
\* An entry carries its TTL and its age, the seconds since it was written.
NoEntry == [present |-> FALSE, str |-> JSONstringify(NoValue), ttl |-> 0,
            age |-> 0]

\* Mutant of cacheSetEntry: the value is stored by SET, with no expiry.
cacheSetEntry_NoExpiry(value, ttl) ==
    [present |-> TRUE, str |-> JSONstringify(value), ttl |-> 0, age |-> 0]

\* client.setEx(key, ttl || CACHE_TTL_SECONDS, JSON.stringify(value))
cacheSetEntry(value, ttl) ==
    [present |-> TRUE, str |-> JSONstringify(value),
     ttl |-> IF ttl # 0 THEN ttl ELSE CACHE_TTL_SECONDS, age |-> 0]

\* cacheGet(key): the parsed value, or null on a miss or a store failure.
cacheGet(entry, storeOk) ==
    IF storeOk /\ entry.present /\ JSONparse(entry.str).ok
    THEN JSONparse(entry.str).value
    ELSE NoValue

\* The row prisma.explanationCache.create inserts.
DbRow(r, explanation) ==
    [queryHash |-> fingerprint(r.sql), sql |-> r.sql, dialect |-> r.dialect,
     explanation |-> explanation]

\* Mutant of DbCreateOk: explanation_cache has no unique index on queryHash.
DbCreateOk_NoUnique(rows, row, storeOk) ==
    /\ storeOk
    /\ row.explanation.confidence

\* Whether the create succeeds: the store answers, confidence (a required
\* column) is present, and the unique index on queryHash has no such row.
DbCreateOk(rows, row, storeOk) ==
    /\ storeOk
    /\ row.explanation.confidence
    /\ \A x \in rows : x.queryHash # row.queryHash

\* The Redis keys lock:{k} and the callers of the stampede lock.
STAMPEDE_LOCK_TTL_SECONDS == 10

LockKeys == Hashes

\* owner is the caller whose setNX created the key (Redis keeps no such
\* record: the value is '1'); 0 when there is no key.
NoLock == [exists |-> FALSE, ttl |-> 0, owner |-> 0]

Idle == [pc |-> "idle", key |-> "h0", ret |-> "none"]

(***************************************************************************)
(* The rate limiter of the cache wrapper: the Redis key                    *)
(* rate_limit:{userId}:{date} of one calendar day, per user.               *)
(***************************************************************************)
Users == {"u1", "u2"}

DefaultMaxTokens == 100

RATE_LIMIT_TTL_SECONDS == 86400

\* The budgets a caller passes: none, MaxTokens, and DefaultMaxTokens for an
\* omitted argument.
RateArgs == {0, MaxTokens, DefaultMaxTokens}

\* The key does not exist: INCR treats it as 0.
NoCounter == [count |-> 0, ttl |-> 0]

Resting == [pc |-> "idle", user |-> "u1", maxTokens |-> 0, current |-> 0]

\* !process.env.ENABLE_RATE_LIMITING || ... === 'false'
RateLimitingOff(e) ==
    e.ENABLE_RATE_LIMITING = "unset" \/ e.ENABLE_RATE_LIMITING = "false"

\* Mutant of WithinBudget: the comparison is strict.
WithinBudget_Strict(current, maxTokens) == current < maxTokens

\* return current <= maxTokens
WithinBudget(current, maxTokens) == current <= maxTokens

\* How a call of checkRateLimit ended: the value INCR gave it (0 when INCR
\* did not run or failed), what it returned, whether a command failed.
CallRecord(l, ret, fault) ==
    [user |-> l.user, maxTokens |-> l.maxTokens, current |-> l.current,
     ret |-> ret, fault |-> fault]

(***************************************************************************)
(* Heuristic merge of explainSQLService.                                   *)
(***************************************************************************)
\* A recommendation of the engine's analyzer: an index type, a table, the
\* columns and the reason text.
RecInputs ==
    [type : {"btree", "composite"},
     table : {"users", "orders"},
     columns : {<<>>, <<"id">>, <<"id", "ts">>},
     reason : {"missing index on filter", "sequential scan on t",
               "Sequential scan", "Missing index", "filesort in use", ""}]

\* columns.join(',')
RECURSIVE join(_)
join(columns) ==
    IF Len(columns) = 0 THEN <<>>
    ELSE IF Len(columns) = 1 THEN columns
    ELSE <<Head(columns), ",">> \o join(Tail(columns))

\* columns[0] in a template string
First(columns) == IF Len(columns) = 0 THEN "undefined" ELSE columns[1]

\* Mutant of Severity: only "missing" makes a suggestion high.
Severity_MissingOnly(reason) ==
    IF includes(Chars(reason), Chars("missing")) THEN "high" ELSE "medium"

\* rec.reason.includes('missing') || rec.reason.includes('sequential')
Severity(reason) ==
    IF includes(Chars(reason), Chars("missing"))
          \/ includes(Chars(reason), Chars("sequential"))
    THEN "high" ELSE "medium"

\* The suggestion the map callback makes of a recommendation; a template
\* string is the sequence of its pieces.
HeuristicSuggestion(rec) ==
    [title |-> <<"Add ", rec.type, " index on ", rec.table, "(">>
                  \o join(rec.columns) \o <<")">>,
     severity |-> Severity(rec.reason),
     reason |-> rec.reason,
     change |-> <<"CREATE INDEX idx_", rec.table, "_", First(rec.columns),
                  " ON ", rec.table, "(">> \o join(rec.columns) \o <<")">>,
     estimatedImpact |-> "2-10x faster queries"]

NoSuggestion ==
    [title |-> <<>>, severity |-> "none", reason |-> "", change |-> <<>>,
     estimatedImpact |-> ""]

\* The inputs of the two functions taken on their own, and their outputs.
FnInputs ==
    [rec : RecInputs, sql : StubSqlTexts, ms : 1..MaxVariant,
     mapped : {FALSE}, stubbed : {FALSE},
     suggestion : {NoSuggestion}, stub : {NoStubResult}]

NoFn == CHOOSE f \in FnInputs : TRUE

\* Mutant of MergeHeuristics: the heuristic suggestions are put in front
\* (unshift instead of push).
MergeHeuristics_Unshift(explanation, plan) ==
    [explanation EXCEPT !.optimizations =
        [i \in 1..plan.recs |-> Suggestion("heuristic", i)] \o @]

\* explanation.optimizations.push(...heuristics.recommendations.map(...))
MergeHeuristics(explanation, plan) ==
    [explanation EXCEPT !.optimizations =
        @ \o [i \in 1..plan.recs |-> Suggestion("heuristic", i)]]

(***************************************************************************)
(* State.                                                                  *)
(***************************************************************************)
VARIABLES
    env,        \* process.env, fixed for the life of the server
    req,        \* req[p]: the body of request p
    pc,         \* pc[p]: the await request p is suspended at
    plan,       \* plan[p]: parsedPlan of explainSQLService
    result,     \* result[p]: explanation / result of the handler
    response,   \* response[p]: what was sent to the caller
    trace,      \* trace[p]: the calls request p has made, in order
    cache,      \* cache[h]: the Redis key explain:{h}
    db,         \* rows of explanation_cache
    prompt,     \* prompt[p]: the user prompt request p sent to the remote API
    lock,       \* lock[k]: the Redis key lock:{k}
    caller,     \* caller[c]: where caller c of the stampede lock stands
    rate,       \* rate[u]: the Redis key rate_limit:{u}:{today}
    limiter,    \* limiter[c]: where caller c of checkRateLimit stands
    calls,      \* the bag of the calls of checkRateLimit that have returned
    flushed,    \* the users whose counter of the day flushCache has removed
    fn          \* the map callback and the stand-in called on inputs of their own

vars == <<env, req, pc, plan, result, response, trace, cache, db, prompt,
          lock, caller, rate, limiter, calls, flushed, fn>>

Log(p, events) == [trace EXCEPT ![p] = @ \o events]

Has(p, e) == \E i \in 1..Len(trace[p]) : trace[p][i] = e

Pos(p, e) == CHOOSE i \in 1..Len(trace[p]) : trace[p][i] = e

\* Mutant of Key: the cache key is built without the hash.
Key_NoHash(p) == "h0"

Key(p) == fingerprint(req[p].sql)

(***************************************************************************)
(* The handler of POST /v1/explain, one action per await.                  *)
(***************************************************************************)
\* Send a response and finish.
Finish(p, resp) ==
    /\ pc' = [pc EXCEPT ![p] = "done"]
    /\ response' = [response EXCEPT ![p] = resp]

\* Mutant of StartCompute: a throw of parseExplainPlan is not caught and fails
\* the request.
StartCompute_ParseFatal(p, events) ==
    LET text == req[p].explainPlan
        given == text.json # "absent"
        parsed == IF given THEN parseExplainPlan(text, req[p].dialect) ELSE NoPlan
        provider == createLLMProvider(env)
    IN  IF provider = "throw" \/ (given /\ ~parsed.ok)
        THEN /\ Finish(p, ReplyError(500))
             /\ trace' = Log(p, events \o (IF provider # "throw"
                                            THEN <<"parse">> ELSE <<>>))
             /\ plan' = [plan EXCEPT ![p] = parsed]
             /\ UNCHANGED prompt
        ELSE /\ pc' = [pc EXCEPT ![p] = IF provider = "openai" THEN "import"
                                        ELSE "llm"]
             /\ plan' = [plan EXCEPT ![p] = parsed]
             /\ trace' = Log(p, events
                    \o (IF given THEN <<"parse">> ELSE <<>>)
                    \o (IF provider = "openai" THEN <<>> ELSE <<"backend">>))
             /\ UNCHANGED <<response, prompt>>

\* The head of explainSQLService, up to its first await: provider
\* construction, plan parsing, and the call of llmProvider.explainSQL.  The
\* stand-in runs to its return at once; the remote provider first awaits
\* import('openai'), before it builds the prompt.
StartCompute(p, events) ==
    LET text == req[p].explainPlan
        given == text.json # "absent"
        provider == createLLMProvider(env)
    IN  IF provider = "throw"
        THEN /\ Finish(p, ReplyError(500))
             /\ trace' = Log(p, events)
             /\ UNCHANGED <<plan, prompt>>
        ELSE /\ pc' = [pc EXCEPT ![p] = IF provider = "openai" THEN "import"
                                        ELSE "llm"]
             /\ plan' = [plan EXCEPT ![p] =
                    IF given THEN parseExplainPlan(text, req[p].dialect)
                    ELSE NoPlan]
             /\ trace' = Log(p, events
                    \o (IF given THEN <<"parse">> ELSE <<>>)
                    \o (IF provider = "openai" THEN <<>> ELSE <<"backend">>))
             /\ UNCHANGED <<response, prompt>>

\* await import('openai') of OpenAIProvider.explainSQL returns: the client is
\* made, the prompt built and client.chat.completions.create called.
ImportDone(p) ==
    /\ pc[p] = "import"
    /\ pc' = [pc EXCEPT ![p] = "llm"]
    /\ prompt' = [prompt EXCEPT ![p] = buildPrompt(LLMRequest(req[p]))]
    /\ trace' = Log(p, <<"backend">>)
    /\ UNCHANGED <<flushed, fn, rate, limiter, calls, lock, caller, env, req, plan, result,
                   response, cache, db>>

\* The request arrives: validation, fingerprint, and either the cache
\* lookup (cache: true) or the computation.
Receive(p) ==
    /\ pc[p] = "idle"
    /\ IF ~ExplainRequestSchema(req[p])
       THEN /\ Finish(p, ReplyError(400))
            /\ UNCHANGED <<plan, trace, prompt>>
       ELSE IF req[p].cache
       THEN /\ pc' = [pc EXCEPT ![p] = "cacheGet"]
            /\ trace' = Log(p, <<"cacheGet">>)
            /\ UNCHANGED <<plan, response, prompt>>
       ELSE StartCompute(p, <<>>)
    /\ UNCHANGED <<flushed, fn, rate, limiter, calls, lock, caller, env, req, result, cache, db>>

\* Mutant of CacheGetDone: a hit runs the heuristic append on the cached value.
CacheGetDone_MergeOnHit(p, storeOk) ==
    /\ pc[p] = "cacheGet"
    /\ LET cached == cacheGet(cache[Key(p)], storeOk)
           text == req[p].explainPlan
           parsed == IF text.json # "absent"
                     THEN parseExplainPlan(text, req[p].dialect) ELSE NoPlan
           merged == IF parsed.ok /\ cached.shape = "ok"
                     THEN MergeHeuristics(cached, parsed) ELSE cached
       IN  IF Truthy(cached)
           THEN /\ result' = [result EXCEPT ![p] = merged]
                /\ Finish(p, Reply200(merged, TRUE, Key(p)))
                /\ trace' = Log(p, <<"hit">>)
                /\ UNCHANGED <<plan, prompt>>
           ELSE /\ StartCompute(p, <<IF storeOk THEN "miss" ELSE "getFail">>)
                /\ UNCHANGED result
    /\ UNCHANGED <<flushed, fn, rate, limiter, calls, lock, caller, env, req, cache, db>>

\* Mutant of CacheGetDone: a Redis failure of the lookup is not caught and
\* fails the request.
CacheGetDone_GetFailFatal(p, storeOk) ==
    /\ pc[p] = "cacheGet"
    /\ LET cached == cacheGet(cache[Key(p)], storeOk)
       IN  IF ~storeOk
           THEN /\ Finish(p, ReplyError(500))
                /\ trace' = Log(p, <<"getFail">>)
                /\ UNCHANGED <<plan, prompt, result>>
           ELSE IF Truthy(cached)
           THEN /\ result' = [result EXCEPT ![p] = cached]
                /\ Finish(p, Reply200(cached, TRUE, Key(p)))
                /\ trace' = Log(p, <<"hit">>)
                /\ UNCHANGED <<plan, prompt>>
           ELSE /\ StartCompute(p, <<"miss">>)
                /\ UNCHANGED result
    /\ UNCHANGED <<flushed, fn, rate, limiter, calls, lock, caller, env, req, cache, db>>

\* await cacheGet(cacheKey) returns; storeOk = FALSE is a Redis failure.
CacheGetDone(p, storeOk) ==
    /\ pc[p] = "cacheGet"
    /\ LET cached == cacheGet(cache[Key(p)], storeOk)
       IN  IF Truthy(cached)
           THEN /\ result' = [result EXCEPT ![p] = cached]
                /\ Finish(p, Reply200(cached, TRUE, Key(p)))
                /\ trace' = Log(p, <<"hit">>)
                /\ UNCHANGED <<plan, prompt>>
           ELSE /\ StartCompute(p, <<IF storeOk THEN "miss" ELSE "getFail">>)
                /\ UNCHANGED result
    /\ UNCHANGED <<flushed, fn, rate, limiter, calls, lock, caller, env, req, cache, db>>

\* Mutant of LLMDone: a backend failure is swallowed and answered as a success.
LLMDone_SwallowFailure(p, out) ==
    /\ pc[p] = "llm"
    /\ IF ~out.ok
       THEN /\ Finish(p, Reply200(out.value, FALSE, Key(p)))
            /\ trace' = Log(p, <<"backendFail">>)
            /\ UNCHANGED result
       ELSE IF plan[p].ok /\ out.value.shape # "ok"
       THEN /\ Finish(p, ReplyError(500))
            /\ trace' = Log(p, <<"backendOk", "mergeFail">>)
            /\ UNCHANGED result
       ELSE /\ pc' = [pc EXCEPT ![p] = "persist"]
            /\ result' = [result EXCEPT ![p] =
                    IF plan[p].ok THEN MergeHeuristics(out.value, plan[p])
                    ELSE out.value]
            /\ trace' = Log(p, <<"backendOk">>
                    \o (IF plan[p].ok THEN <<"merge">> ELSE <<>>)
                    \o <<"persist">>)
            /\ UNCHANGED response
    /\ UNCHANGED <<flushed, fn, rate, limiter, calls, lock, caller, prompt, env, req, plan, cache, db>>

\* await llmProvider.explainSQL(...) settles with outcome out; then the
\* heuristic merge and the call of prisma.explanationCache.create.
LLMDone(p, out) ==
    /\ pc[p] = "llm"
    /\ IF ~out.ok
       THEN /\ Finish(p, ReplyError(500))
            /\ trace' = Log(p, <<"backendFail">>)
            /\ UNCHANGED result
       ELSE IF plan[p].ok /\ out.value.shape # "ok"
       THEN /\ Finish(p, ReplyError(500))
            /\ trace' = Log(p, <<"backendOk", "mergeFail">>)
            /\ UNCHANGED result
       ELSE /\ pc' = [pc EXCEPT ![p] = "persist"]
            /\ result' = [result EXCEPT ![p] =
                    IF plan[p].ok THEN MergeHeuristics(out.value, plan[p])
                    ELSE out.value]
            /\ trace' = Log(p, <<"backendOk">>
                    \o (IF plan[p].ok THEN <<"merge">> ELSE <<>>)
                    \o <<"persist">>)
            /\ UNCHANGED response
    /\ UNCHANGED <<flushed, fn, rate, limiter, calls, lock, caller, prompt, env, req, plan, cache, db>>

\* Mutant of PersistDone: a rejected create is not caught and fails the request.
PersistDone_Propagate(p, storeOk) ==
    /\ pc[p] = "persist"
    /\ LET row == DbRow(req[p], result[p])
           ok == DbCreateOk(db, row, storeOk)
       IN  /\ db' = IF ok THEN db \cup {row} ELSE db
           /\ IF ~ok
              THEN /\ Finish(p, ReplyError(500))
                   /\ trace' = Log(p, <<"persistFail">>)
              ELSE IF req[p].cache
              THEN /\ pc' = [pc EXCEPT ![p] = "cacheSet"]
                   /\ trace' = Log(p, <<"persistOk", "cacheSet">>)
                   /\ UNCHANGED response
              ELSE /\ Finish(p, Reply200(result[p], FALSE, Key(p)))
                   /\ trace' = Log(p, <<"persistOk">>)
    /\ UNCHANGED <<flushed, fn, rate, limiter, calls, lock, caller, prompt, env, req, plan, result, cache>>

\* await prisma.explanationCache.create(...) settles; a rejection is caught.
\* explainSQLService returns and the handler goes on to the cache write.
PersistDone(p, storeOk) ==
    /\ pc[p] = "persist"
    /\ LET row == DbRow(req[p], result[p])
           ok == DbCreateOk(db, row, storeOk)
       IN  /\ db' = IF ok THEN db \cup {row} ELSE db
           /\ IF req[p].cache
              THEN /\ pc' = [pc EXCEPT ![p] = "cacheSet"]
                   /\ trace' = Log(p, <<IF ok THEN "persistOk" ELSE "persistFail",
                                        "cacheSet">>)
                   /\ UNCHANGED response
              ELSE /\ Finish(p, Reply200(result[p], FALSE, Key(p)))
                   /\ trace' = Log(p, <<IF ok THEN "persistOk" ELSE "persistFail">>)
    /\ UNCHANGED <<flushed, fn, rate, limiter, calls, lock, caller, prompt, env, req, plan, result, cache>>

\* await cacheSet(cacheKey, result, 3600) returns; a Redis failure is caught.
CacheSetDone(p, storeOk) ==
    /\ pc[p] = "cacheSet"
    /\ cache' = IF storeOk /\ JSONstringify(result[p]).text = "json"
                THEN [cache EXCEPT ![Key(p)] = cacheSetEntry(result[p], EXPLAIN_TTL)]
                ELSE cache
    /\ Finish(p, Reply200(result[p], FALSE, Key(p)))
    /\ trace' = Log(p, <<IF storeOk THEN "setOk" ELSE "setFail">>)
    /\ UNCHANGED <<flushed, fn, rate, limiter, calls, lock, caller, prompt, env, req, plan, result, db>>

\* Redis drops the key explain:{h} when its TTL has run out.
Expire(h) ==
    /\ cache[h].present
    /\ cache' = [cache EXCEPT ![h] = NoEntry]
    /\ UNCHANGED <<flushed, fn, rate, limiter, calls, lock, caller, prompt, env, req, pc, plan, result, response,
                   trace, db>>

\* Time passes by TickSeconds while some request is still to be answered:
\* every entry ages, and Redis drops the entries whose TTL has run out.
TickSeconds == EXPLAIN_TTL \div 3

MaxAge == 2 * EXPLAIN_TTL

Tick ==
    /\ \E p \in Procs : pc[p] # "done"
    /\ \E h \in Hashes : cache[h].present
    /\ \A h \in Hashes : cache[h].present => cache[h].age < MaxAge
    /\ cache' = [h \in Hashes |->
                    IF ~cache[h].present THEN cache[h]
                    ELSE IF cache[h].ttl # 0 /\ cache[h].age + TickSeconds >= cache[h].ttl
                    THEN NoEntry
                    ELSE [cache[h] EXCEPT !.age = @ + TickSeconds]]
    /\ UNCHANGED <<flushed, fn, rate, limiter, calls, lock, caller, prompt, env, req, pc, plan, result, response,
                   trace, db>>

(***************************************************************************)
(* The stampede lock of the cache wrapper.  A caller is a piece of code    *)
(* that calls acquireStampedeLock(k) and, when it got true, later calls    *)
(* releaseStampedeLock(k); each Redis command is one step.  The route      *)
(* handler above calls neither function.                                   *)
(***************************************************************************)
\* The callers take their turn at the lock through these actions.
AcquireCall(c, k) ==
    /\ caller[c].pc = "idle"
    /\ caller' = [caller EXCEPT ![c] = [pc |-> "setNX", key |-> k, ret |-> "none"]]
    /\ UNCHANGED <<flushed, fn, rate, limiter, calls, lock, prompt, env, req, pc, plan, result, response, trace,
                   cache, db>>

\* await client.setNX(lockKey, '1') settles: a Redis failure is caught and
\* false returned; the key is created only if it does not exist.
SetNXDone(c, storeOk) ==
    /\ caller[c].pc = "setNX"
    /\ LET k == caller[c].key
           acquired == storeOk /\ ~lock[k].exists
       IN  /\ lock' = IF acquired THEN [lock EXCEPT ![k] =
                                          [exists |-> TRUE, ttl |-> 0, owner |-> c]]
                      ELSE lock
           /\ caller' = [caller EXCEPT ![c] =
                  IF acquired THEN [@ EXCEPT !.pc = "expire"]
                  ELSE [@ EXCEPT !.pc = "idle", !.ret = "false"]]
    /\ UNCHANGED <<flushed, fn, rate, limiter, calls, prompt, env, req, pc, plan, result, response, trace, cache, db>>

\* await client.expire(lockKey, STAMPEDE_LOCK_TTL_SECONDS) settles: true is
\* returned, or false when the command failed (the key stays as it is).
ExpireDone(c, storeOk) ==
    /\ caller[c].pc = "expire"
    /\ LET k == caller[c].key
       IN  /\ lock' = IF storeOk /\ lock[k].exists
                      THEN [lock EXCEPT ![k].ttl = STAMPEDE_LOCK_TTL_SECONDS]
                      ELSE lock
           /\ caller' = [caller EXCEPT ![c] =
                  IF storeOk THEN [@ EXCEPT !.pc = "holding", !.ret = "true"]
                  ELSE [@ EXCEPT !.pc = "idle", !.ret = "false"]]
    /\ UNCHANGED <<flushed, fn, rate, limiter, calls, prompt, env, req, pc, plan, result, response, trace, cache, db>>

\* A caller that got true calls releaseStampedeLock(key).
ReleaseCall(c) ==
    /\ caller[c].pc = "holding"
    /\ caller' = [caller EXCEPT ![c].pc = "del"]
    /\ UNCHANGED <<flushed, fn, rate, limiter, calls, lock, prompt, env, req, pc, plan, result, response, trace,
                   cache, db>>

\* await client.del(lockKey) settles: the key is deleted whoever created it;
\* a Redis failure is caught.
DelDone(c, storeOk) ==
    /\ caller[c].pc = "del"
    /\ lock' = IF storeOk THEN [lock EXCEPT ![caller[c].key] = NoLock] ELSE lock
    /\ caller' = [caller EXCEPT ![c] = Idle]
    /\ UNCHANGED <<flushed, fn, rate, limiter, calls, prompt, env, req, pc, plan, result, response, trace, cache, db>>

\* Redis drops the key lock:{k} when its TTL has run out.
ExpireLock(k) ==
    /\ lock[k].exists
    /\ lock[k].ttl # 0
    /\ lock' = [lock EXCEPT ![k] = NoLock]
    /\ UNCHANGED <<flushed, fn, rate, limiter, calls, caller, prompt, env, req, pc, plan, result, response, trace,
                   cache, db>>

\* The caller's process dies between two commands, releasing nothing.
Crash(c) ==
    /\ caller[c].pc \in {"expire", "holding"}
    /\ caller' = [caller EXCEPT ![c] = Idle]
    /\ UNCHANGED <<flushed, fn, rate, limiter, calls, lock, prompt, env, req, pc, plan, result, response, trace,
                   cache, db>>

(***************************************************************************)
(* checkRateLimit(userId, maxTokens), each Redis command one step.         *)
(***************************************************************************)
Return(c, l, ret, fault) ==
    /\ limiter' = [limiter EXCEPT ![c] = Resting]
    /\ calls' = calls (+) SetToBag({CallRecord(l, ret, fault)})

\* The call up to its first await: with limiting off it returns true at once.
RateCall(c, u, n) ==
    /\ limiter[c].pc = "idle"
    /\ BagCardinality(calls) + Cardinality({d \in Procs : limiter[d].pc # "idle"})
            < MaxCalls
    /\ LET l == [pc |-> "incr", user |-> u, maxTokens |-> n, current |-> 0]
       IN  IF RateLimitingOff(env)
           THEN Return(c, l, "true", FALSE)
           ELSE /\ limiter' = [limiter EXCEPT ![c] = l]
                /\ calls' = calls
    /\ UNCHANGED <<flushed, fn, rate, lock, caller, prompt, env, req, pc, plan, result,
                   response, trace, cache, db>>

\* Mutant of IncrDone: a failed INCR is caught and false returned.
IncrDone_FailClosed(c, storeOk) ==
    /\ limiter[c].pc = "incr"
    /\ LET u == limiter[c].user
           current == rate[u].count + 1
           l == [limiter[c] EXCEPT !.current = current]
       IN  IF ~storeOk
           THEN /\ Return(c, limiter[c], "false", TRUE)
                /\ rate' = rate
           ELSE /\ rate' = [rate EXCEPT ![u].count = current]
                /\ IF current = 1
                   THEN /\ limiter' = [limiter EXCEPT ![c] = [l EXCEPT !.pc = "expire"]]
                        /\ calls' = calls
                   ELSE Return(c, l, IF WithinBudget(current, l.maxTokens)
                                     THEN "true" ELSE "false", FALSE)
    /\ UNCHANGED <<flushed, fn, lock, caller, prompt, env, req, pc, plan, result, response,
                   trace, cache, db>>

\* await client.incr(key) settles: a failure is caught and true returned;
\* the first count of the day goes on to set the expiry.
IncrDone(c, storeOk) ==
    /\ limiter[c].pc = "incr"
    /\ LET u == limiter[c].user
           current == rate[u].count + 1
           l == [limiter[c] EXCEPT !.current = current]
       IN  IF ~storeOk
           THEN /\ Return(c, limiter[c], "true", TRUE)
                /\ rate' = rate
           ELSE /\ rate' = [rate EXCEPT ![u].count = current]
                /\ IF current = 1
                   THEN /\ limiter' = [limiter EXCEPT ![c] = [l EXCEPT !.pc = "expire"]]
                        /\ calls' = calls
                   ELSE Return(c, l, IF WithinBudget(current, l.maxTokens)
                                     THEN "true" ELSE "false", FALSE)
    /\ UNCHANGED <<flushed, fn, lock, caller, prompt, env, req, pc, plan, result, response,
                   trace, cache, db>>

\* await client.expire(key, 86400) settles: a failure is caught and true
\* returned; EXPIRE of a key that is no longer there changes nothing.
RateExpireDone(c, storeOk) ==
    /\ limiter[c].pc = "expire"
    /\ LET l == limiter[c]
       IN  IF ~storeOk
           THEN /\ Return(c, l, "true", TRUE)
                /\ rate' = rate
           ELSE /\ rate' = IF rate[l.user].count > 0
                           THEN [rate EXCEPT ![l.user].ttl = RATE_LIMIT_TTL_SECONDS]
                           ELSE rate
                /\ Return(c, l, IF WithinBudget(l.current, l.maxTokens)
                                THEN "true" ELSE "false", FALSE)
    /\ UNCHANGED <<flushed, fn, lock, caller, prompt, env, req, pc, plan, result, response,
                   trace, cache, db>>

(***************************************************************************)
(* flushCache(): client.flushDb() removes every key of the store, the      *)
(* cached explanations, the locks and the rate counters alike; a Redis     *)
(* failure is caught and leaves the store as it is.  A flush of an empty   *)
(* store changes nothing and is left out.                                  *)
(***************************************************************************)
FlushCache(storeOk) ==
    /\ \/ \E h \in Hashes : cache[h].present
       \/ \E k \in LockKeys : lock[k].exists
       \/ \E u \in Users : rate[u].count > 0
    /\ IF storeOk
       THEN /\ cache' = [h \in Hashes |-> NoEntry]
            /\ lock' = [k \in LockKeys |-> NoLock]
            /\ rate' = [u \in Users |-> NoCounter]
            /\ flushed' = flushed \cup {u \in Users : rate[u].count > 0}
       ELSE UNCHANGED <<cache, lock, rate, flushed>>
    /\ UNCHANGED <<fn, limiter, calls, caller, prompt, env, req, pc, plan, result,
                   response, trace, db>>

(***************************************************************************)
(* The map callback of explainSQLService and the stand-in provider, each   *)
(* applied to its input.                                                   *)
(***************************************************************************)
MapRecommendation ==
    /\ ~fn.mapped
    /\ fn' = [fn EXCEPT !.mapped = TRUE, !.suggestion = HeuristicSuggestion(fn.rec)]
    /\ UNCHANGED <<flushed, rate, limiter, calls, lock, caller, prompt, env, req, pc,
                   plan, result, response, trace, cache, db>>

StubCall ==
    /\ ~fn.stubbed
    /\ fn' = [fn EXCEPT !.stubbed = TRUE, !.stub = StubResult(fn.sql, fn.ms)]
    /\ UNCHANGED <<flushed, rate, limiter, calls, lock, caller, prompt, env, req, pc,
                   plan, result, response, trace, cache, db>>

(***************************************************************************)
(* Specification: NumProcs requests against one server.                    *)
(***************************************************************************)
\* The remote provider with its key, the stub, and a server with no key and
\* no provider named (provider construction throws on every request).
MainEnvs ==
    {e \in ProviderEnvs : /\ e.NODE_ENV = "production"
                          /\ e.LLM_PROVIDER \in {"openai", "stub", "unset"}
                          /\ e.OPENAI_API_KEY = (e.LLM_PROVIDER = "openai")}

MainPlans ==
    {NoPlanText,
     [json |-> "array", lib |-> TRUE, txt |-> FALSE, recs |-> MaxRecs],
     [json |-> "invalid", lib |-> FALSE, txt |-> FALSE, recs |-> 0]}

\* One statement with each plan text, with and without cache (the text no
\* parser accepts without cache only), and the two ways a body can be
\* invalid.
MainRequests ==
    {r \in Requests : /\ r.explainPlan \in MainPlans
                      /\ r.privacyMode
                      /\ \/ /\ r.sql = "SELECT a WHERE x = 1"
                            /\ r.dialect = "postgres"
                            /\ r.explainPlan.json = "invalid" => ~r.cache
                         \/ r.sql = "" /\ r.dialect = "postgres" /\ r.cache
                                      /\ r.explainPlan = NoPlanText
                         \/ r.sql = "SELECT b" /\ r.dialect = "oracle" /\ r.cache
                                              /\ r.explainPlan = NoPlanText}

\* The server starts with Redis and the table empty; bodies is the set of
\* assignments of a body to each of the NumProcs requests.
InitBase(envs, bodies) ==
    /\ env \in envs
    /\ req \in bodies
    /\ pc = [p \in Procs |-> "idle"]
    /\ plan = [p \in Procs |-> NoPlan]
    /\ result = [p \in Procs |-> NoValue]
    /\ response = [p \in Procs |-> NoResponse]
    /\ trace = [p \in Procs |-> <<>>]
    /\ cache = [h \in Hashes |-> NoEntry]
    /\ db = {}
    /\ prompt = [p \in Procs |-> NoPrompt]
    /\ lock = [k \in LockKeys |-> NoLock]
    /\ caller = [c \in Procs |-> Idle]
    /\ rate = [u \in Users |-> NoCounter]
    /\ limiter = [c \in Procs |-> Resting]
    /\ calls = EmptyBag
    /\ flushed = {}

InitEach(envs, bodies) ==
    /\ InitBase(envs, bodies)
    /\ fn = NoFn

\* The NumProcs requests carry the same body.
InitWith(envs, requests) ==
    InitEach(envs, {[p \in Procs |-> r] : r \in requests})

Init == InitWith(MainEnvs, MainRequests)

Next ==
    \/ \E p \in Procs : Receive(p)
    \/ \E p \in Procs, storeOk \in BOOLEAN : CacheGetDone(p, storeOk)
    \/ \E p \in Procs : ImportDone(p)
    \/ \E p \in Procs :
         \E out \in ExplainOutcomes(createLLMProvider(env), req[p].sql) :
            LLMDone(p, out)
    \/ \E p \in Procs, storeOk \in BOOLEAN : PersistDone(p, storeOk)
    \/ \E p \in Procs, storeOk \in BOOLEAN : CacheSetDone(p, storeOk)
    \/ \E h \in Hashes : Expire(h)
    \/ \E storeOk \in BOOLEAN : FlushCache(storeOk)

Spec == Init /\ [][Next]_vars

(***************************************************************************)
(* Specification: the same requests arriving one after the other (request  *)
(* p + 1 arrives when request p has been answered), within the TTL of the  *)
(* entries written.                                                        *)
(***************************************************************************)
Turn(p) ==
    \A q \in Procs : /\ q < p => pc[q] = "done"
                     /\ q > p => pc[q] = "idle"

NextSeq ==
    \/ \E p \in Procs : Turn(p) /\ Receive(p)
    \/ \E p \in Procs, storeOk \in BOOLEAN : Turn(p) /\ CacheGetDone(p, storeOk)
    \/ \E p \in Procs : Turn(p) /\ ImportDone(p)
    \/ \E p \in Procs :
         \E out \in ExplainOutcomes(createLLMProvider(env), req[p].sql) :
            Turn(p) /\ LLMDone(p, out)
    \/ \E p \in Procs, storeOk \in BOOLEAN : Turn(p) /\ PersistDone(p, storeOk)
    \/ \E p \in Procs, storeOk \in BOOLEAN : Turn(p) /\ CacheSetDone(p, storeOk)

SeqSpec == Init /\ [][NextSeq]_vars

(***************************************************************************)
(* Specification: requests of every supported dialect with every EXPLAIN   *)
(* text, one after the other, against the remote provider or the stub.     *)
(***************************************************************************)
ParseEnvs ==
    {e \in ProviderEnvs : /\ e.NODE_ENV = "production"
                          /\ e.LLM_PROVIDER \in {"openai", "stub"}
                          /\ e.OPENAI_API_KEY = (e.LLM_PROVIDER = "openai")}

\* The fields of a text that parseExplainPlan never looks at for the
\* dialect are left at FALSE, so that texts the code treats alike for a
\* dialect are taken once (sqlite does not JSON.parse the text at all).
OnePerCase(text, dialect) ==
    CASE text.json = "absent" -> TRUE
      [] dialect = "postgres" ->
            /\ (text.json = "array" /\ text.lib) => ~text.txt
            /\ text.json = "value" => (~text.lib /\ ~text.txt)
            /\ text.json = "invalid" => ~text.lib
      [] dialect = "mysql" ->
            /\ ~text.txt
            /\ text.json = "invalid" => ~text.lib
      [] OTHER -> ~text.txt /\ text.json = "invalid"

ParseRequests ==
    {r \in Requests : /\ r.sql = "SELECT a WHERE x = 1"
                      /\ ExplainRequestSchema(r)
                      /\ r.privacyMode
                      /\ OnePerCase(r.explainPlan, r.dialect)}

ParseInit == InitWith(ParseEnvs, ParseRequests)

ParseSpec == ParseInit /\ [][NextSeq]_vars

(***************************************************************************)
(* Specification: a server started under every environment, the requests   *)
(* with and without privacyMode, one after the other.                      *)
(***************************************************************************)
EnvRequests ==
    {r \in Requests : /\ r.sql \in {"SELECT a WHERE x = 1", "SELECT b"}
                      /\ r.dialect = "postgres"
                      /\ r.explainPlan = NoPlanText
                      /\ r.cache}

EnvInit == InitWith(ProviderEnvs, EnvRequests)

EnvSpec == EnvInit /\ [][NextSeq]_vars

(***************************************************************************)
(* Specification: identical requests one after the other, with time        *)
(* passing between and during them.                                        *)
(***************************************************************************)
TtlInit ==
    InitWith(ParseEnvs, {r \in ParseRequests : r.explainPlan = NoPlanText /\ r.cache})

TtlNext ==
    \/ NextSeq
    \/ Tick
    \/ \E storeOk \in BOOLEAN : FlushCache(storeOk)

TtlSpec == TtlInit /\ [][TtlNext]_vars

(***************************************************************************)
(* Specification: concurrent requests for different statements, request p  *)
(* asking for the p-th statement of MixSql (taken round).                  *)
(***************************************************************************)
MixSql == <<"SELECT a WHERE x = 1", "SELECT b", "SELECT a WHERE x = 2">>

MixBodies ==
    {[p \in Procs |->
        [sql |-> MixSql[((p - 1) % Len(MixSql)) + 1], dialect |-> "postgres",
         explainPlan |-> NoPlanText, privacyMode |-> TRUE, cache |-> c]] :
     c \in BOOLEAN}

MixInit == InitEach(ParseEnvs, MixBodies)

MixSpec == MixInit /\ [][Next]_vars

(***************************************************************************)
(* Specification: a first request, then requests with the same statement   *)
(* that differ from it in nothing, in a literal value, in the dialect or   *)
(* in the EXPLAIN text; all of them with cache: true.                      *)
(***************************************************************************)
KeyBase ==
    [sql |-> "SELECT a WHERE x = 1", dialect |-> "postgres",
     explainPlan |-> [json |-> "array", lib |-> TRUE, txt |-> FALSE, recs |-> MaxRecs],
     privacyMode |-> TRUE, cache |-> TRUE]

KeyVariations ==
    {KeyBase,
     [KeyBase EXCEPT !.sql = "SELECT a WHERE x = 2"],
     [KeyBase EXCEPT !.dialect = "mysql"],
     [KeyBase EXCEPT !.explainPlan = NoPlanText]}

KeyBodies == {[p \in Procs |-> IF p = 1 THEN KeyBase ELSE v] : v \in KeyVariations}

KeyInit == InitEach(ParseEnvs, KeyBodies)

KeySpec == KeyInit /\ [][NextSeq]_vars

(***************************************************************************)
(* Specification: NumProcs callers of the stampede lock, Redis expiring    *)
(* the keys that have a TTL.                                               *)
(***************************************************************************)
LockInit ==
    InitWith({e \in ParseEnvs : e.LLM_PROVIDER = "stub"},
             {r \in EnvRequests : r.sql = "SELECT b" /\ r.privacyMode})

LockNext ==
    \/ \E c \in Procs, k \in LockKeys : AcquireCall(c, k)
    \/ \E c \in Procs, storeOk \in BOOLEAN : SetNXDone(c, storeOk)
    \/ \E c \in Procs, storeOk \in BOOLEAN : ExpireDone(c, storeOk)
    \/ \E c \in Procs : ReleaseCall(c)
    \/ \E c \in Procs, storeOk \in BOOLEAN : DelDone(c, storeOk)
    \/ \E k \in LockKeys : ExpireLock(k)
    \/ \E c \in Procs : Crash(c)
    \/ \E storeOk \in BOOLEAN : FlushCache(storeOk)

LockSpec == LockInit /\ [][LockNext]_vars

(***************************************************************************)
(* Specification: NumProcs callers of checkRateLimit over one calendar     *)
(* day, in which a key that was given its 86400 seconds cannot run out.    *)
(***************************************************************************)
RateInit ==
    InitWith({e \in Envs : /\ e.NODE_ENV = "production"
                           /\ e.LLM_PROVIDER = "stub"
                           /\ ~e.OPENAI_API_KEY},
             {r \in EnvRequests : r.sql = "SELECT b" /\ r.privacyMode})

RateNext ==
    \/ \E c \in Procs, u \in Users, n \in RateArgs : RateCall(c, u, n)
    \/ \E c \in Procs, storeOk \in BOOLEAN : IncrDone(c, storeOk)
    \/ \E c \in Procs, storeOk \in BOOLEAN : RateExpireDone(c, storeOk)
    \/ \E storeOk \in BOOLEAN : FlushCache(storeOk)

RateSpec == RateInit /\ [][RateNext]_vars

(***************************************************************************)
(* Specification: the two functions on every input of FnInputs.            *)
(***************************************************************************)
FunInit ==
    /\ InitBase({e \in ParseEnvs : e.LLM_PROVIDER = "stub"},
                {[p \in Procs |-> r] :
                    r \in {q \in EnvRequests : q.sql = "SELECT b" /\ q.privacyMode}})
    /\ fn \in FnInputs

FunNext ==
    \/ MapRecommendation
    \/ StubCall

FunSpec == FunInit /\ [][FunNext]_vars

(***************************************************************************)
(* Vocabulary of the properties.                                           *)
(***************************************************************************)
Valid(p) == ExplainRequestSchema(req[p])

\* No Redis operation of the run with trace tr has failed.
NoFault(tr) == \A i \in 1..Len(tr) : tr[i] \notin {"getFail", "setFail"}

Last(p) == trace[p][Len(trace[p])]

\* The events of order that request p has made appear in p's trace in
\* the order given.
Ordered(p, order) ==
    LET listed(e) == \E i \in 1..Len(order) : order[i] = e
        made(e) == Has(p, e)
    IN  SelectSeq(trace[p], listed) = SelectSeq(order, made)

BackendCalls == Cardinality({p \in Procs : Has(p, "backend")})

Stored(h) == JSONparse(cache[h].str).value

(***************************************************************************)
(* C1.  Stampede bound: when the NumProcs requests are identical, have     *)
(* cache: true, run concurrently against an empty cache (none of them has  *)
(* written its result yet) and Redis is healthy, not every one of them     *)
(* invokes the backend: the number of explainSQL calls stays below N.      *)
(***************************************************************************)
C1_StampedeBound ==
    ( /\ \A p, q \in Procs : req[p] = req[q]
      /\ \A p \in Procs : /\ Valid(p)
                          /\ req[p].cache
                          /\ NoFault(trace[p])
                          /\ ~Has(p, "setOk")
      /\ \A h \in Hashes : ~cache[h].present )
    => BackendCalls < NumProcs

(***************************************************************************)
(* C2.  Cache idempotence: of two identical requests with cache: true that *)
(* arrive one after the other, with Redis healthy and the first answered   *)
(* 200, the second is answered with the same payload, flagged cached (the  *)
(* first, on an empty cache, is not), and the backend is invoked at most   *)
(* once for the two.                                                       *)
(***************************************************************************)
C2_Case(p, q) ==
    /\ q = p + 1
    /\ req[p] = req[q]
    /\ req[p].cache
    /\ pc[q] = "done"
    /\ NoFault(trace[p])
    /\ NoFault(trace[q])
    /\ response[p].status = 200

C2_CacheIdempotence ==
    \A p, q \in Procs :
        C2_Case(p, q) =>
            /\ response[q] = [response[p] EXCEPT !.cached = TRUE]
            /\ ~Has(q, "backend")
            /\ p = 1 => (~response[p].cached /\ Has(p, "backend"))

(***************************************************************************)
(* C3.  A cache hit short-circuits the run: when the lookup of a request   *)
(* with cache: true finds a value under explain:{hash}, the request ends   *)
(* in that very step: it has made no call but the lookup, leaves the cache *)
(* and the durable store as they are, and answers the stored result with   *)
(* cached = true.                                                          *)
(***************************************************************************)
C3_HitShortCircuits ==
    [][\A p \in Procs :
          ( /\ pc[p] = "cacheGet"
            /\ pc'[p] # "cacheGet"
            /\ cache[Key(p)].present
            /\ NoFault(trace'[p]) )
          => /\ pc'[p] = "done"
             /\ trace'[p] = <<"cacheGet", "hit">>
             /\ response'[p] = Reply200(Stored(Key(p)), TRUE, Key(p))
             /\ cache' = cache
             /\ db' = db]_vars

(***************************************************************************)
(* C4.  Cache-disabled bypass: a valid request with cache: false makes no  *)
(* cache lookup and no cache write, none of its steps changes the cache    *)
(* store, and it always invokes the backend (the remote provider makes its *)
(* call once its client module is loaded).                                 *)
(***************************************************************************)
C4_Case(p) == Valid(p) /\ ~req[p].cache /\ pc[p] # "idle"

C4_CacheDisabledBypass ==
    /\ [](\A p \in Procs :
            C4_Case(p) =>
                /\ ~Has(p, "cacheGet")
                /\ ~Has(p, "cacheSet")
                /\ pc[p] # "import" => Has(p, "backend"))
    /\ [][\A p \in Procs :
            (Valid(p) /\ ~req[p].cache /\ pc'[p] # pc[p]) => cache' = cache]_vars

(***************************************************************************)
(* C5.  No two diverging computations are both cached under one key: with  *)
(* Redis healthy, an entry that is present (unexpired) is never replaced   *)
(* by a different computed result.                                         *)
(***************************************************************************)
C5_NoDivergingWrites ==
    [][\A h \in Hashes :
          ( /\ cache[h].present
            /\ cache'[h].present
            /\ \A p \in Procs : NoFault(trace'[p]) )
          => cache'[h] = cache[h]]_vars

(***************************************************************************)
(* C6.  A backend failure is fatal and leaves no trace: the run ends at    *)
(* the failure, the caller gets the 500 failure response with no result in *)
(* it, and the run makes no cache write and no durable write.              *)
(***************************************************************************)
C6_BackendFailureFatal ==
    \A p \in Procs :
        Has(p, "backendFail") =>
            /\ Last(p) = "backendFail"
            /\ pc[p] = "done"
            /\ response[p] = ReplyError(500)
            /\ ~Has(p, "cacheSet")
            /\ ~Has(p, "persist")

C6_Witness ==
    \E p, q \in Procs :
        /\ Has(p, "backendFail")
        /\ p # q /\ Key(p) = Key(q) /\ cache[Key(p)].present

(***************************************************************************)
(* C7.  The remote provider accepts a reply only if it has the             *)
(* ExplanationResult shape (an optimizations array and a confidence among  *)
(* its fields): with the remote provider, every result sent to a caller    *)
(* and every cache entry has that shape.                                   *)
(***************************************************************************)
WellShaped(v) == v.shape = "ok" /\ v.confidence

C7_OnlyWellShapedAccepted ==
    createLLMProvider(env) = "openai" =>
        /\ \A p \in Procs :
              response[p].status = 200 => WellShaped(response[p].data)
        /\ \A h \in Hashes : cache[h].present => WellShaped(Stored(h))

(***************************************************************************)
(* C8.  Persistence is fire-and-forget: no request is ever held, its      *)
(* response unsent, on the durable-store write.                            *)
(***************************************************************************)
C8_NeverWaitsOnPersist ==
    \A p \in Procs : ~(pc[p] = "persist" /\ response[p] = NoResponse)

(***************************************************************************)
(* C9.  A durable-store write failure is never surfaced: once the write    *)
(* of a request has settled, by success or failure alike, the request is   *)
(* answered with the 200 response carrying the result computed before the  *)
(* write, and until then it is on its way to that answer.                  *)
(***************************************************************************)
C9_PersistFailureNotSurfaced ==
    \A p \in Procs :
        (Has(p, "persistOk") \/ Has(p, "persistFail")) =>
            /\ IF pc[p] = "done"
               THEN response[p] = Reply200(result[p], FALSE, Key(p))
               ELSE pc[p] = "cacheSet" /\ response[p] = NoResponse

C9_Witness ==
    \E p, q \in Procs :
        /\ p # q
        /\ req[p] = req[q]
        /\ result[p] = result[q]
        /\ Has(p, "persistFail") /\ Has(q, "persistOk")
        /\ response[p].status = 200
        /\ response[p] = response[q]

(***************************************************************************)
(* C10.  The steps of a run occur in the order cache check, plan parse,    *)
(* backend call, heuristic merge, cache write, persistence write.          *)
(***************************************************************************)
C10_SpecOrder ==
    \A p \in Procs :
        Ordered(p, <<"cacheGet", "parse", "backend", "merge", "cacheSet", "persist">>)

(***************************************************************************)
(* C11.  Graceful parse degradation: when the EXPLAIN text of a valid      *)
(* request fails to parse (whatever the dialect and the reason), the       *)
(* request still invokes the backend (the remote provider once its client  *)
(* module is loaded), no heuristic merge is made, the result is the        *)
(* backend's own value, and once the backend has answered the request ends *)
(* with the 200 response carrying that value.                              *)
(***************************************************************************)
ParseFailed(p) == Has(p, "parse") /\ ~plan[p].ok

HeuristicCount(v) ==
    Cardinality({i \in 1..Len(v.optimizations) :
                    v.optimizations[i].origin = "heuristic"})

BackendValues(p) ==
    {o.value : o \in {x \in ExplainOutcomes(createLLMProvider(env), req[p].sql) :
                         x.ok}}

C11_ParseDegradesGracefully ==
    /\ [](\A p \in Procs :
            ParseFailed(p) =>
                /\ pc[p] # "import" => Has(p, "backend")
                /\ ~Has(p, "merge")
                /\ ~Has(p, "mergeFail")
                /\ Has(p, "backendOk") =>
                      /\ result[p] \in BackendValues(p)
                      /\ HeuristicCount(result[p]) = 0
                      /\ pc[p] = "done" =>
                            response[p] = Reply200(result[p], FALSE, Key(p)))
    /\ [][\A p \in Procs :
            (ParseFailed(p) /\ pc[p] = "llm" /\ Has(p, "backendOk")')
                => pc'[p] = "persist"]_vars

C11_Witness ==
    \E p \in Procs :
        /\ ParseFailed(p)
        /\ plan[p].parser = "format"
        /\ response[p].status = 200
        /\ ~response[p].cached
        /\ Len(response[p].data.optimizations) > 0

(***************************************************************************)
(* C12.  The cache is never a correctness dependency: a lookup that fails  *)
(* because Redis is unreachable is treated as a miss (the request goes on  *)
(* to the computation, whatever the store holds), a write that fails is    *)
(* skipped (the store is left as it is), and a request that met such a     *)
(* failure and whose backend answered ends with the 200 response carrying  *)
(* the recomputed result, after the durable write.                         *)
(***************************************************************************)
CacheFault(p) == Has(p, "getFail") \/ Has(p, "setFail")

\* The results a full computation of request p can give.
Recomputed(p) ==
    {IF plan[p].ok THEN MergeHeuristics(v, plan[p]) ELSE v : v \in BackendValues(p)}

C12_CacheFaultsAbsorbed ==
    /\ [](\A p \in Procs :
            (CacheFault(p) /\ pc[p] = "done" /\ createLLMProvider(env) # "throw") =>
                /\ Has(p, "backend")
                /\ (Has(p, "backendOk") /\ ~Has(p, "mergeFail")) =>
                      /\ result[p] \in Recomputed(p)
                      /\ response[p] = Reply200(result[p], FALSE, Key(p))
                      /\ Has(p, "persistOk") \/ Has(p, "persistFail"))
    /\ [][\A p \in Procs :
            /\ (pc[p] = "cacheGet" /\ Has(p, "getFail")') =>
                  /\ cache' = cache
                  /\ IF createLLMProvider(env) = "throw"
                     THEN response'[p] = ReplyError(500)
                     ELSE /\ pc'[p] \in {"import", "llm"}
                          /\ pc'[p] = "llm" => Last(p)' = "backend"
            /\ (pc[p] = "cacheSet" /\ Has(p, "setFail")') =>
                  /\ cache' = cache
                  /\ pc'[p] = "done"
                  /\ response'[p] = Reply200(result[p], FALSE, Key(p))]_vars

C12_Witness ==
    \E p \in Procs :
        /\ Has(p, "getFail")
        /\ Has(p, "setFail")
        /\ response[p].status = 200
        /\ \E q \in Procs : q # p /\ Has(q, "setOk")

(***************************************************************************)
(* C13.  Stampede-lock mutual exclusion: for every lock key, at most one   *)
(* caller at a time is a holder, a holder being a caller to which          *)
(* acquireStampedeLock returned true and which has not yet called          *)
(* releaseStampedeLock.                                                    *)
(***************************************************************************)
Holders(k) == {c \in Procs : caller[c].pc = "holding" /\ caller[c].key = k}

C13_AtMostOneHolder ==
    \A k \in LockKeys : Cardinality(Holders(k)) <= 1

(***************************************************************************)
(* C14.  Lock creation and expiry are attached atomically: every lock key  *)
(* that exists has the lock TTL, so that a key whose holder crashed or     *)
(* failed goes away within the TTL and the lock can be acquired again.     *)
(***************************************************************************)
C14_EveryLockKeyHasTTL ==
    \A k \in LockKeys :
        lock[k].exists => lock[k].ttl = STAMPEDE_LOCK_TTL_SECONDS

(***************************************************************************)
(* C15.  The heuristic merge is additive and ordered: the optimizations of *)
(* a computed result are the backend's own suggestions, unchanged and in   *)
(* their order, followed by exactly one heuristic suggestion for each of   *)
(* the k recommendations of the analyzer, in recommendation order, when a  *)
(* plan was parsed; they are exactly the backend's when none was.  The     *)
(* rest of the result is the backend's, and the response carries it.       *)
(***************************************************************************)
Computed(p) == Has(p, "backendOk") /\ ~Has(p, "mergeFail")

C15_MergeAdditiveOrdered ==
    \A p \in Procs :
        Computed(p) =>
            /\ \E v \in BackendValues(p) :
                  LET k == IF plan[p].ok THEN plan[p].recs ELSE 0
                      opts == result[p].optimizations
                  IN  /\ Len(opts) = Len(v.optimizations) + k
                      /\ SubSeq(opts, 1, Len(v.optimizations)) = v.optimizations
                      /\ \A i \in 1..k :
                            opts[Len(v.optimizations) + i] = Suggestion("heuristic", i)
                      /\ [result[p] EXCEPT !.optimizations = v.optimizations] = v
            /\ pc[p] = "done" => response[p].data = Spread(result[p])

C15_Witness ==
    \E p \in Procs :
        /\ Computed(p)
        /\ plan[p].ok
        /\ plan[p].recs >= 2
        /\ response[p].status = 200
        /\ Len(response[p].data.optimizations) >= plan[p].recs + 2

(***************************************************************************)
(* C16.  The heuristic append runs exactly once per computed result and    *)
(* before the cache write: a run merges at most once, and before its       *)
(* cacheSet; the entry stored in the cache is the merged result of the run *)
(* that wrote it, with one heuristic suggestion per recommendation; a hit  *)
(* leaves the entry as it is, appends nothing and returns the stored       *)
(* value, so every returned list has exactly that many heuristic           *)
(* suggestions however many hits came before.                              *)
(***************************************************************************)
MergeCount(p) ==
    Cardinality({i \in 1..Len(trace[p]) : trace[p][i] = "merge"})

\* The number of recommendations the analyzer has for the plan of request p.
Recommendations(p) ==
    LET text == req[p].explainPlan
        parsed == parseExplainPlan(text, req[p].dialect)
    IN  IF text.json # "absent" /\ parsed.ok THEN parsed.recs ELSE 0

C16_MergeOnceBeforeCaching ==
    /\ [](/\ \A p \in Procs :
              /\ MergeCount(p) <= 1
              /\ Has(p, "cacheSet") =>
                    /\ MergeCount(p) = (IF plan[p].ok THEN 1 ELSE 0)
                    /\ plan[p].ok => Pos(p, "merge") < Pos(p, "cacheSet")
              /\ response[p].status = 200 =>
                    HeuristicCount(response[p].data) = Recommendations(p)
          /\ \A h \in Hashes :
              cache[h].present =>
                  \E q \in Procs : /\ Key(q) = h
                                   /\ Has(q, "setOk")
                                   /\ Stored(h) = result[q]
                                   /\ HeuristicCount(Stored(h)) = Recommendations(q))
    /\ [][\A p \in Procs :
            (pc[p] = "cacheGet" /\ Has(p, "hit")') =>
                /\ cache' = cache
                /\ response'[p].data = Stored(Key(p))
                /\ MergeCount(p)' = 0]_vars

C16_Witness ==
    \E p \in Procs :
        /\ Has(p, "hit")
        /\ response[p].cached
        /\ Recommendations(p) >= 2
        /\ HeuristicCount(response[p].data) = Recommendations(p)
        /\ HeuristicCount(Stored(Key(p))) = Recommendations(p)

(***************************************************************************)
(* C17.  Plan-parser dispatch for postgres: a text that parses as a JSON   *)
(* array is handed to the JSON-shape parser and that parser's outcome,     *)
(* plan or failure, is the outcome of the parse; the text-format parser    *)
(* is invoked if and only if JSON parsing of the text itself fails.        *)
(***************************************************************************)
C17_PostgresDispatch ==
    \A p \in Procs :
        (Has(p, "parse") /\ req[p].dialect = "postgres") =>
            LET text == req[p].explainPlan
            IN  /\ text.json = "array" => plan[p] = LibParse("pgJson", text, text.lib)
                /\ plan[p].parser = "pgText" <=> text.json = "invalid"

(***************************************************************************)
(* C18.  The unsupported-dialect failure is raised only for dialects       *)
(* outside {postgres, mysql, sqlite}: for a supported dialect every text   *)
(* ends in the result or the failure of that dialect's own parser.         *)
(***************************************************************************)
C18_UnsupportedOnlyForOtherDialects ==
    \A p \in Procs :
        Has(p, "parse") =>
            (plan[p].parser = "dialect"
                <=> req[p].dialect \notin {"postgres", "mysql", "sqlite"})

(***************************************************************************)
(* C19.  Backend variant selection: when no remote credential is           *)
(* configured or the environment is a test context, the deterministic      *)
(* stand-in is the variant used: provider creation does not fail (every    *)
(* request that has to compute reaches the backend call) and the remote    *)
(* variant is not the one called (no prompt is sent to the remote API).    *)
(***************************************************************************)
C19_StandInWithoutCredentialOrInTest ==
    (~env.OPENAI_API_KEY \/ env.NODE_ENV = "test") =>
        \A p \in Procs :
            ((Has(p, "miss") \/ Has(p, "getFail")) /\ pc[p] # "import") =>
                /\ Has(p, "backend")
                /\ ~prompt[p].sent

(***************************************************************************)
(* C20.  Privacy redaction: for a request with privacyMode = true, the SQL *)
(* text in the prompt sent to the remote backend is the sanitized form of  *)
(* the request's SQL (and so not the raw SQL whenever the two differ).     *)
(***************************************************************************)
C20_PromptCarriesSanitizedSql ==
    \A p \in Procs :
        (req[p].privacyMode /\ prompt[p].sent) =>
            prompt[p].sql = sanitizeSQL(req[p].sql, TRUE)

C20_Witness ==
    \E p \in Procs :
        /\ req[p].privacyMode
        /\ prompt[p].sent
        /\ prompt[p].sql # req[p].sql
        /\ response[p].status = 200

(***************************************************************************)
(* C21.  The backend request carries the inbound privacyMode unchanged:    *)
(* the privacyMode the backend client receives for a request equals the    *)
(* privacyMode of that request, true and false alike.                      *)
(***************************************************************************)
C21_PrivacyModeForwarded ==
    \A p \in Procs :
        prompt[p].sent => prompt[p].privacy = req[p].privacyMode

(***************************************************************************)
(* C22.  A request that fails validation (empty sql, dialect outside the   *)
(* enum) is rejected at once with the 400 failure and no side effect: it   *)
(* makes no call at all (no cache read or write, no backend call, no       *)
(* durable write), and its step leaves the cache, the durable store and    *)
(* the prompts as they are.                                                *)
(***************************************************************************)
Malformed(r) ==
    r.sql = "" \/ r.dialect \notin {"postgres", "mysql", "sqlite"}

C22_InvalidRejectedNoSideEffect ==
    /\ [](\A p \in Procs :
            (Malformed(req[p]) /\ pc[p] # "idle") =>
                /\ pc[p] = "done"
                /\ response[p] = ReplyError(400)
                /\ trace[p] = <<>>)
    /\ [][\A p \in Procs :
            (Malformed(req[p]) /\ pc'[p] # pc[p]) =>
                /\ cache' = cache
                /\ db' = db
                /\ prompt' = prompt]_vars

C22_Witness ==
    \E p, q \in Procs :
        /\ p # q
        /\ Malformed(req[p]) /\ response[p].status = 400
        /\ Malformed(req[q]) /\ response[q].status = 400
        /\ req[p].sql = ""

(***************************************************************************)
(* C23.  Concurrent runs with different fingerprint hashes never           *)
(* interfere: a step of a run for hash A changes no cache key but          *)
(* explain:A and nothing that a run for another hash B has or reads (its   *)
(* position, plan, result, response, calls, prompt, the key explain:B and  *)
(* the durable records of B); every cache entry and durable record under   *)
(* a hash is the result of a run for that hash, and a hit returns the      *)
(* result of another run for the same hash.                                *)
(***************************************************************************)
Hash(p) == fingerprint(req[p].sql)

View(q) ==
    <<pc[q], plan[q], result[q], response[q], trace[q], prompt[q],
      cache[Hash(q)], {x \in db : x.queryHash = Hash(q)}>>

C23_DifferentHashesIndependent ==
    /\ [][\A p \in Procs :
            pc'[p] # pc[p] =>
                /\ \A h \in Hashes \ {Hash(p)} : cache'[h] = cache[h]
                /\ \A q \in Procs : Hash(q) # Hash(p) => View(q)' = View(q)]_vars
    /\ [](/\ \A k \in Hashes :
              cache[k].present =>
                  \E w \in Procs : /\ Hash(w) = k
                                   /\ Has(w, "setOk")
                                   /\ Stored(k) = result[w]
          /\ \A x \in db :
              \E w \in Procs : Hash(w) = x.queryHash /\ x = DbRow(req[w], result[w])
          /\ \A r \in Procs :
              response[r].status = 200 =>
                  /\ response[r].hash = Hash(r)
                  /\ IF response[r].cached
                     THEN \E w \in Procs \ {r} : /\ Hash(w) = Hash(r)
                                                 /\ Has(w, "setOk")
                                                 /\ response[r].data = Spread(result[w])
                     ELSE response[r].data = Spread(result[r]))

C23_Witness ==
    \E p, q \in Procs :
        /\ Hash(p) # Hash(q)
        /\ Has(p, "setOk") /\ Has(q, "setOk")
        /\ response[p].status = 200 /\ response[q].status = 200
        /\ cache[Hash(p)].present /\ cache[Hash(q)].present
        /\ Stored(Hash(p)) # Stored(Hash(q))
        /\ Cardinality(db) = 2

(***************************************************************************)
(* C24.  The cache TTL bounds staleness: every entry is written with a TTL *)
(* of 3600 seconds and is gone when that time has passed, so a result      *)
(* returned with cached = true was written at most 3600 seconds before it  *)
(* is served.                                                              *)
(***************************************************************************)
C24_StalenessBounded ==
    /\ [](\A h \in Hashes :
            cache[h].present => (cache[h].ttl = 3600 /\ cache[h].age < 3600))
    /\ [][\A p \in Procs :
            (pc[p] = "cacheGet" /\ Has(p, "hit")') =>
                /\ cache[Key(p)].present
                /\ cache[Key(p)].age <= 3600
                /\ response'[p] = Reply200(Stored(Key(p)), TRUE, Key(p))]_vars

\* The last request is served an entry that is two ticks old.
C24_Witness ==
    /\ \A p \in Procs : pc[p] = "done"
    /\ Has(NumProcs, "hit")
    /\ response[NumProcs].cached
    /\ cache[Key(NumProcs)].age = 2 * TickSeconds

(***************************************************************************)
(* C25.  Per-user daily rate budget: with limiting enabled and the store   *)
(* reachable, the k-th counted call of checkRateLimit(userId, N) for a user *)
(* returns true iff k <= N, so at most N such calls return true.           *)
(***************************************************************************)
Counted(u) == {r \in BagToSet(calls) : r.user = u /\ r.current > 0}

Reachable(u) == \A r \in BagToSet(calls) : r.user = u => ~r.fault

C25_DailyBudget ==
    env.ENABLE_RATE_LIMITING = "true" =>
        \A u \in Users :
            /\ \A r \in Counted(u) :
                    ~r.fault => (r.ret = "true" <=> r.current <= r.maxTokens)
            /\ u \notin flushed =>
                    /\ \A r, t \in Counted(u) : r.current = t.current => r = t
                    /\ \A r \in Counted(u) : CopiesIn(r, calls) = 1
            /\ (Reachable(u) /\ u \notin flushed) =>
                    /\ \A r \in BagToSet(calls) : r.user = u => r \in Counted(u)
                    /\ \A n \in RateArgs :
                            Cardinality({r \in Counted(u) : /\ r.maxTokens = n
                                                            /\ r.ret = "true"}) <= n

\* A user's budget of MaxTokens is used up and the next call is refused.
C25_Witness ==
    /\ env.ENABLE_RATE_LIMITING = "true"
    /\ \E u \in Users :
          /\ Reachable(u)
          /\ u \notin flushed
          /\ Cardinality({r \in Counted(u) : /\ r.maxTokens = MaxTokens
                                            /\ r.ret = "true"}) = MaxTokens
          /\ \E r \in Counted(u) : /\ r.maxTokens = MaxTokens
                                   /\ r.current = MaxTokens + 1
                                   /\ r.ret = "false"

(***************************************************************************)
(* C26.  Heuristic-derived suggestion mapping: the suggestion made of a    *)
(* recommendation has severity high iff the reason text contains "missing" *)
(* or "sequential" and medium otherwise (never low), the title             *)
(* "Add {type} index on {table}({columns joined by comma})", and a         *)
(* CREATE INDEX change named idx_{table}_{firstColumn}.                    *)
(***************************************************************************)
Contains(text, word) ==
    \E i \in 1..(Len(text) - Len(word) + 1) :
        \A j \in 1..Len(word) : text[i + j - 1] = word[j]

Commas(columns) ==
    [i \in 1..(IF Len(columns) = 0 THEN 0 ELSE 2 * Len(columns) - 1) |->
        IF i % 2 = 1 THEN columns[(i + 1) \div 2] ELSE ","]

C26_SuggestionMapping ==
    fn.mapped =>
        LET rec == fn.rec
            g == fn.suggestion
        IN  /\ g.severity = "high" <=>
                  (Contains(Chars(rec.reason), Chars("missing"))
                      \/ Contains(Chars(rec.reason), Chars("sequential")))
            /\ g.severity \in {"high", "medium"}
            /\ g.title = <<"Add ", rec.type, " index on ", rec.table, "(">>
                             \o Commas(rec.columns) \o <<")">>
            /\ SubSeq(g.change, 1, 3) = <<"CREATE INDEX idx_", rec.table, "_">>
            /\ Len(rec.columns) > 0 =>
                  g.change = <<"CREATE INDEX idx_", rec.table, "_", rec.columns[1],
                               " ON ", rec.table, "(">>
                                 \o Commas(rec.columns) \o <<")">>
            /\ g.reason = rec.reason

\* A recommendation over two columns whose reason names a sequential scan.
C26_Witness ==
    /\ fn.mapped
    /\ Len(fn.rec.columns) = 2
    /\ fn.rec.reason = "sequential scan on t"
    /\ fn.suggestion.severity = "high"
    /\ Len(fn.suggestion.title) = 9

(***************************************************************************)
(* C27.  Deterministic stand-in result: for every SQL text the stand-in    *)
(* returns confidence low and a planAnalysis of exactly one SeqScan node;  *)
(* its optimizations are exactly one suggestion titled "Add index on       *)
(* filtered column" when the SQL contains WHERE in any letter case, and    *)
(* empty otherwise.                                                        *)
(***************************************************************************)
ContainsAnyCase(text, word) ==
    \E i \in 1..(Len(text) - Len(word) + 1) :
        \A j \in 1..Len(word) : Upper(text[i + j - 1]) = Upper(word[j])

C27_StubResultShape ==
    fn.stubbed =>
        /\ fn.stub.confidence = "low"
        /\ Len(fn.stub.planAnalysis) = 1
        /\ fn.stub.planAnalysis[1].operation = "SeqScan"
        /\ IF ContainsAnyCase(Chars(fn.sql), Chars("WHERE"))
           THEN /\ Len(fn.stub.optimizations) = 1
                /\ fn.stub.optimizations[1].title = "Add index on filtered column"
           ELSE fn.stub.optimizations = <<>>

\* The stand-in is given a statement that spells the keyword in lower case.
C27_Witness ==
    /\ fn.stubbed
    /\ fn.sql = "select a where x = 1"
    /\ Len(fn.stub.optimizations) = 1
    /\ fn.stub.confidence = "low"

(***************************************************************************)
(* C28.  A cache hit only serves a result computed for equivalent inputs:  *)
(* whenever a response has cached = true, the result it carries was        *)
(* computed and stored by a request with the same dialect, explainPlan and *)
(* SQL text, literal values included, as the request it is served to.      *)
(***************************************************************************)
C28_HitServesEquivalentInputs ==
    \A p \in Procs :
        (response[p].status = 200 /\ response[p].cached) =>
            \E w \in Procs \ {p} :
                /\ Has(w, "setOk")
                /\ result[w] = response[p].data
                /\ req[w].sql = req[p].sql
                /\ req[w].dialect = req[p].dialect
                /\ req[w].explainPlan = req[p].explainPlan

(***************************************************************************)
(* C29 as stated.  The durable store holds at most one record per          *)
(* queryHash, the record of the first successful computation for the hash: *)
(* the create of a computation fails only as a later recomputation of a    *)
(* hash that has its record, on the unique index.                          *)
(***************************************************************************)
Recorded(h) == {x \in db : x.queryHash = h}

C29_FirstComputationRecorded ==
    /\ [](\A h \in Hashes : Cardinality(Recorded(h)) <= 1)
    /\ [][\A p \in Procs :
            (pc[p] = "persist" /\ pc'[p] # pc[p]) =>
                IF Recorded(Hash(p)) = {}
                THEN db' = db \cup {DbRow(req[p], result[p])}
                ELSE db' = db]_vars

(***************************************************************************)
(* C29, amended.  The durable store holds at most one record per           *)
(* queryHash, the record of the first computation whose create succeeded   *)
(* (a create that fails because the store does not answer or the result    *)
(* lacks a required column leaves no record).  Once a hash has its record, *)
(* a later recomputation fails its create on the unique index, leaves the  *)
(* record unchanged, and the request still returns success.                *)
(***************************************************************************)
C29_OneRecordPerHash ==
    /\ [](/\ \A h \in Hashes : Cardinality(Recorded(h)) <= 1
          /\ \A x \in db :
                \E w \in Procs : /\ Has(w, "persistOk")
                                 /\ x = DbRow(req[w], result[w])
          /\ \A p \in Procs :
                (Has(p, "persistFail") /\ pc[p] = "done") =>
                    response[p] = Reply200(result[p], FALSE, Key(p)))
    /\ [][/\ db \subseteq db'
          /\ \A p \in Procs :
                (pc[p] = "persist" /\ pc'[p] # pc[p] /\ Recorded(Hash(p)) # {}) =>
                    /\ db' = db
                    /\ Has(p, "persistFail")'
                    /\ pc'[p] \in {"cacheSet", "done"}
                    /\ pc'[p] = "done" => response'[p].status = 200]_vars

\* A recomputation with another result met the record of the first one.
C29_Witness ==
    \E p, q \in Procs :
        /\ Hash(p) = Hash(q)
        /\ Has(p, "persistOk") /\ Has(q, "persistFail")
        /\ result[p] # result[q]
        /\ db = {DbRow(req[p], result[p])}
        /\ pc[q] = "done" /\ response[q].status = 200 /\ ~response[q].cached
        /\ response[q].data = result[q]

(***************************************************************************)
(* C30.  releaseStampedeLock only releases the caller's own lock: when the *)
(* key a caller releases was created by another caller (its own lock has   *)
(* run out and the key was acquired again), the release leaves the key in  *)
(* place, so that no further caller can acquire it under its holder.       *)
(***************************************************************************)
C30_ReleaseOnlyOwnLock ==
    [][\A c \in Procs :
          (/\ caller[c].pc = "del"
           /\ caller'[c].pc = "idle"
           /\ lock[caller[c].key].exists
           /\ lock[caller[c].key].owner # c) =>
              lock'[caller[c].key] = lock[caller[c].key]]_vars

(***************************************************************************)
(* C31.  checkRateLimit fails open: it returns false only when rate        *)
(* limiting is enabled and the counter it incremented for the user and day *)
(* exceeds maxTokens; with rate limiting disabled it returns true without  *)
(* touching the store; and when a store operation (incr or expire) fails   *)
(* it returns true.                                                        *)
(***************************************************************************)
Disabled == env.ENABLE_RATE_LIMITING \in {"unset", "false"}

C31_FailsOpen ==
    /\ [](/\ \A r \in BagToSet(calls) :
                /\ r.ret \in {"true", "false"}
                /\ r.ret = "false" =>
                      /\ ~Disabled
                      /\ ~r.fault
                      /\ r.current > r.maxTokens
                /\ r.fault => r.ret = "true"
                /\ Disabled => (r.ret = "true" /\ r.current = 0 /\ ~r.fault)
          /\ Disabled =>
                /\ rate = [u \in Users |-> NoCounter]
                /\ \A c \in Procs : limiter[c].pc = "idle")
    /\ [][\A c \in Procs :
            ( /\ limiter[c].pc # "idle"
              /\ limiter'[c].pc = "idle"
              /\ rate' = rate
              /\ limiter[c].pc = "expire" =>
                    (rate[limiter[c].user].count > 0 /\ rate[limiter[c].user].ttl = 0) ) =>
                \E r \in BagToSet(calls') :
                    /\ CopiesIn(r, calls') = CopiesIn(r, calls) + 1
                    /\ r.fault /\ r.ret = "true"
                    /\ r.user = limiter[c].user]_vars

\* A call whose INCR failed, a call that was counted first against a budget
\* of 0 and whose EXPIRE failed, and a counted call that was refused.
C31_Witness ==
    /\ ~Disabled
    /\ \E r, t, f \in BagToSet(calls) :
          /\ r.fault /\ r.current = 0 /\ r.ret = "true"
          /\ t.fault /\ t.current = 1 /\ t.maxTokens = 0 /\ t.ret = "true"
          /\ ~f.fault /\ f.ret = "false" /\ f.current > f.maxTokens

====
